---- MODULE Spec2Model ----
(***************************************************************************)
(* A model of the ComfyUI API client of client.go: the request builder     *)
(* (newRequest with its configuration steps withPath and withBodyJSON),    *)
(* the typed dispatcher (do), and the two operations built on them         *)
(* (StartWorkflow, WorkflowStatus), called concurrently on one Client.     *)
(*                                                                         *)
(* Text is modelled as a sequence of pieces.  A piece is one character or  *)
(* an atom that stands for a run of characters holding no "/" and no "."   *)
(* (Origin stands for "http://h", "payload" and "result" for themselves).  *)
(***************************************************************************)
EXTENDS Integers, Sequences, FiniteSets, TLC

VARIABLES
    cfg,      \* the Client struct: [BaseURL, APIToken, Client]
    pc,       \* caller -> "idle" | "built" | "sent" | "recv" | "done"
    call,     \* caller -> the arguments of the call in progress
    build,    \* caller -> what newRequest returned: [req, err, ran]
    sent,     \* caller -> the transports whose Do was invoked, in order
    resp,     \* caller -> what the transport's Do returned: [got, err, StatusCode, Body]
    body,     \* caller -> the reader of the response body: [pos, sawEnd, closed]
    dest,     \* caller -> the destination v handed to do: [ID, decoded]
    ret       \* caller -> what the operation returned: [returned, isNil, val, err]

vars == <<cfg, pc, call, build, sent, resp, body, dest, ret>>

\* the nil error
NoErr == [kind |-> "none"]

----------------------------------------------------------------------------
(* Bounds of the model.                                                    *)

\* the longest response body, in tokens
MaxBody == 4
\* the longest list of configuration steps handed to newRequest directly
MaxSteps == 2
\* the longest workflow identifier, in pieces
MaxIdLen == 2
\* the number of concurrent callers of the concurrency specification
NumCallers == 2

----------------------------------------------------------------------------
(* Sequences.                                                              *)

Range(s) == {s[i] : i \in 1..Len(s)}

\* all sequences over S of length at most n
SeqsUpTo(S, n) == UNION {[1..k -> S] : k \in 0..n}

HasPrefix(s, p) == Len(s) >= Len(p) /\ SubSeq(s, 1, Len(p)) = p

HasSuffix(s, p) == Len(s) >= Len(p) /\ SubSeq(s, Len(s) - Len(p) + 1, Len(s)) = p

----------------------------------------------------------------------------
(* net/url and path, as far as withPath and http.NewRequestWithContext     *)
(* use them.                                                               *)

Origin == "http://h"
\* an ASCII control character: url.Parse rejects a URL that holds one
Ctl == "\\x7f"
Slash == <<"/">>

\* url.Parse: the URL, or a parse error
ParseURL(s) ==
    IF Ctl \in Range(s)
    THEN [err |-> [kind |-> "url", text |-> s], Host |-> "", Path |-> <<>>]
    ELSE IF s # <<>> /\ s[1] = Origin
         THEN [err |-> NoErr, Host |-> Origin, Path |-> Tail(s)]
         ELSE [err |-> NoErr, Host |-> "", Path |-> s]

\* URL.String: the text of a parsed URL
URLString(u) ==
    IF u.Host = "" THEN u.Path
    ELSE IF u.Path # <<>> /\ u.Path[1] # "/"
         THEN <<u.Host>> \o Slash \o u.Path
         ELSE <<u.Host>> \o u.Path

RECURSIVE SplitSlash(_, _, _)
\* strings.Split(s, "/") as path.Clean walks it: the components between slashes
SplitSlash(s, cur, acc) ==
    IF s = <<>> THEN Append(acc, cur)
    ELSE IF Head(s) = "/" THEN SplitSlash(Tail(s), <<>>, Append(acc, cur))
    ELSE SplitSlash(Tail(s), Append(cur, Head(s)), acc)

RECURSIVE CleanParts(_, _)
\* path.Clean on a rooted path: "" and "." are dropped, ".." drops the
\* component before it (and is itself dropped at the root)
CleanParts(parts, out) ==
    IF parts = <<>> THEN out
    ELSE LET p == Head(parts) IN
         IF p = <<>> \/ p = <<".">> THEN CleanParts(Tail(parts), out)
         ELSE IF p = <<".", ".">>
              THEN CleanParts(Tail(parts),
                              IF out = <<>> THEN out ELSE SubSeq(out, 1, Len(out) - 1))
              ELSE CleanParts(Tail(parts), Append(out, p))

RECURSIVE JoinParts(_)
JoinParts(parts) ==
    IF parts = <<>> THEN <<>> ELSE Slash \o Head(parts) \o JoinParts(Tail(parts))

\* the cleaned components as a rooted path: "/" when there is none
RootedPath(parts) == IF parts = <<>> THEN Slash ELSE JoinParts(parts)

\* path.Clean of a path that starts with "/"
CleanRooted(p) == RootedPath(CleanParts(SplitSlash(p, <<>>, <<>>), <<>>))

RECURSIVE JoinNonEmpty(_)
\* strings.Join of the non-empty elements with "/"
JoinNonEmpty(elems) ==
    IF elems = <<>> THEN <<>>
    ELSE IF Head(elems) = <<>> THEN JoinNonEmpty(Tail(elems))
    ELSE IF JoinNonEmpty(Tail(elems)) = <<>> THEN Head(elems)
    ELSE Head(elems) \o Slash \o JoinNonEmpty(Tail(elems))

\* path.Join, whose first element starts with "/" here
PathJoin(elems) == CleanRooted(JoinNonEmpty(elems))

\* (*URL).JoinPath: the elements joined onto the URL's path and cleaned; a
\* trailing slash of the last element is kept
KeepTrailingSlash(last, p) ==
    IF HasSuffix(last, Slash) /\ ~HasSuffix(p, Slash) THEN p \o Slash ELSE p

JoinedPath(rooted, all, joined) ==
    KeepTrailingSlash(all[Len(all)], IF rooted THEN joined ELSE Tail(joined))

JoinAll(rooted, all) == JoinedPath(rooted, all, PathJoin(all))

JoinRooted(rooted, path, elem) ==
    JoinAll(rooted, <<IF rooted THEN path ELSE Slash \o path>> \o elem)

URLJoinPath(u, elem) ==
    [u EXCEPT !.Path = JoinRooted(HasPrefix(u.Path, Slash), u.Path, elem)]

JoinParsed(u, elem) ==
    IF u.err # NoErr THEN [result |-> <<>>, err |-> u.err]
    ELSE [result |-> URLString(URLJoinPath(u, elem)), err |-> NoErr]

\* url.JoinPath(base, elem...): (result, err)
JoinPath(base, elem) == JoinParsed(ParseURL(base), elem)

----------------------------------------------------------------------------
(* encoding/json, as far as withBodyJSON uses it on a                      *)
(* *StartWorkflowRequest.                                                  *)

\* a byte that is not valid UTF-8
BadByte == "\\xff"
\* the Unicode replacement character
Replacement == "U+FFFD"

\* how the encoder writes one character of a string: "<" (like ">" and "&")
\* as an escape, a byte that is not valid UTF-8 as the escape of U+FFFD
QuoteChar(ch) ==
    IF ch = "<" THEN "\\u003c"
    ELSE IF ch = BadByte THEN "\\ufffd"
    ELSE ch

\* what a decoder reads one written character back as
UnquoteChar(q) ==
    IF q = "\\u003c" THEN "<"
    ELSE IF q = "\\ufffd" THEN Replacement
    ELSE q

\* the content of the JSON string literal that encodes s
QuoteJSON(s) == [i \in 1..Len(s) |-> QuoteChar(s[i])]

\* the string a JSON string literal's content decodes to
UnquoteJSON(q) == [i \in 1..Len(q) |-> UnquoteChar(q[i])]

\* HandlerType
HandlerRawWorkflow == "RawWorkflow"

\* a nil json.RawMessage, a nil *Webhook, a nil *StartWorkflowRequest
NilRaw == [isNil |-> TRUE, text |-> "", valid |-> FALSE]
NilWebhook == [isNil |-> TRUE, URL |-> ""]
NilPrompt ==
    [isNil |-> TRUE,
     Input |-> [RequestID |-> <<>>, Handler |-> "", GCP |-> FALSE,
                Modifiers |-> FALSE, Workflow |-> NilRaw, Webhook |-> NilWebhook]]

Member(k, v) == [k |-> k, v |-> v]

\* json.RawMessage.MarshalJSON and the encoder's check of what it returns:
\* null for a nil message, the message itself when it is valid JSON
EncodeRaw(w) ==
    IF w.isNil THEN [err |-> NoErr, v |-> <<"null">>]
    ELSE IF w.valid THEN [err |-> NoErr, v |-> <<w.text>>]
    ELSE [err |-> [kind |-> "json", text |-> w.text], v |-> <<>>]

\* a slip: request_id without omitempty
InputMembers_NoOmit(in) ==
    <<Member("request_id", QuoteJSON(in.RequestID))>>
    \o <<Member("handler", <<in.Handler>>)>>
    \o (IF in.GCP THEN <<Member("gcp", <<"{}">>)>> ELSE <<>>)
    \o (IF in.Modifiers THEN <<Member("modifiers", <<"{}">>)>> ELSE <<>>)
    \o <<Member("workflow_json", EncodeRaw(in.Workflow).v)>>

\* the members of an Input in the order of the struct's fields; the
\* fields tagged omitempty are left out when empty (a string) or nil (a pointer)
InputMembers(in) ==
    (IF in.RequestID = <<>> THEN <<>>
     ELSE <<Member("request_id", QuoteJSON(in.RequestID))>>)
    \o <<Member("handler", <<in.Handler>>)>>
    \o (IF in.GCP THEN <<Member("gcp", <<"{}">>)>> ELSE <<>>)
    \o (IF in.Modifiers THEN <<Member("modifiers", <<"{}">>)>> ELSE <<>>)
    \o <<Member("workflow_json", EncodeRaw(in.Workflow).v)>>
    \o (IF in.Webhook.isNil THEN <<>>
        ELSE <<Member("webhook", <<in.Webhook.URL>>)>>)

\* json.NewEncoder(b).Encode(payload): the document written, or the error
EncodeInput(in, raw) ==
    IF raw.err # NoErr THEN [err |-> raw.err, doc |-> [null |-> FALSE, input |-> <<>>]]
    ELSE [err |-> NoErr, doc |-> [null |-> FALSE, input |-> InputMembers(in)]]

\* json.NewEncoder(b).Encode(payload): the document written, or the error
EncodeJSON(payload) ==
    IF payload.isNil THEN [err |-> NoErr, doc |-> [null |-> TRUE, input |-> <<>>]]
    ELSE EncodeInput(payload.Input, EncodeRaw(payload.Input.Workflow))

----------------------------------------------------------------------------
(* The submission request.                                                 *)

\* StartWithRequestID(requestID): the option, applied to a request
StartWithRequestID(requestID, r) == [r EXCEPT !.Input.RequestID = requestID]

RECURSIVE ApplyStartOptions(_, _)
\* the loop of NewStartWorkflowRequest over its options, each the request
\* identifier of one StartWithRequestID
ApplyStartOptions(r, opts) ==
    IF opts = <<>> THEN r
    ELSE ApplyStartOptions(StartWithRequestID(Head(opts), r), Tail(opts))

\* NewStartWorkflowRequest(workflow, opts...)
NewStartWorkflowRequest(workflow, opts) ==
    ApplyStartOptions(
        [isNil |-> FALSE,
         Input |-> [RequestID |-> <<>>, Handler |-> HandlerRawWorkflow, GCP |-> TRUE,
                    Modifiers |-> TRUE, Workflow |-> workflow, Webhook |-> NilWebhook]],
        opts)

----------------------------------------------------------------------------
(* The request builder.                                                    *)

NoBody == [null |-> FALSE, none |-> TRUE, input |-> <<>>]
NoReq == [isNil |-> TRUE]

\* withPath(path...) and withBodyJSON(payload), as values
WithPath(path) == [step |-> "withPath", path |-> path, payload |-> NilPrompt]
WithBodyJSON(payload) == [step |-> "withBodyJSON", path |-> <<>>, payload |-> payload]

\* the function withPath returns, applied to the draft o
SetPath(o, j) == [o EXCEPT !.Path = j.result, !.err = j.err]

\* a slip: the segments appended to the base after a "/", not joined
withPath_Concat(path, o) ==
    SetPath(o, [result |-> o.BaseURL \o Slash \o JoinNonEmpty(path),
                err |-> ParseURL(o.BaseURL).err])

\* the function withPath returns, applied to the draft o
withPath(path, o) == SetPath(o, JoinPath(o.BaseURL, path))

SetBody(o, e) ==
    [o EXCEPT !.err = e.err,
              !.Body = IF e.err = NoErr
                       THEN [null |-> e.doc.null, none |-> FALSE, input |-> e.doc.input]
                       ELSE @,
              !.Method = "POST"]

\* the function withBodyJSON returns, applied to the draft o
withBodyJSON(payload, o) == SetBody(o, EncodeJSON(payload))

ApplyStep(f, o) ==
    IF f.step = "withPath" THEN withPath(f.path, o) ELSE withBodyJSON(f.payload, o)

RECURSIVE RunSteps(_, _, _)
RECURSIVE NextStep(_, _, _)
\* the loop of newRequest over its steps: it stops at the first step that
\* leaves an error in the draft; ran counts the steps applied
RunSteps(o, opts, ran) ==
    IF opts = <<>> THEN [o |-> o, ran |-> ran]
    ELSE NextStep(ApplyStep(Head(opts), o), Tail(opts), ran + 1)

\* a slip: the draft's error is looked at only after the loop
NextStep_NoStop(o, rest, ran) == RunSteps(o, rest, ran)

\* the loop's check of the draft after a step
NextStep(o, rest, ran) ==
    IF o.err # NoErr THEN [o |-> o, ran |-> ran] ELSE RunSteps(o, rest, ran)

\* http.Header.Set
HeaderSet(h, k, v) == [x \in DOMAIN h \cup {k} |-> IF x = k THEN v ELSE h[x]]

EmptyHeader == [x \in {} |-> ""]

\* http.NewRequestWithContext: a nil context and a URL that does not parse
\* are errors
RequestTo(ctx, method, u, b) ==
    IF ctx = "nil" THEN [req |-> NoReq, err |-> [kind |-> "ctx", text |-> <<>>]]
    ELSE IF u.err # NoErr THEN [req |-> NoReq, err |-> u.err]
    ELSE [req |-> [isNil |-> FALSE, Method |-> method, URL |-> URLString(u), Body |-> b,
                   Header |-> EmptyHeader, ctx |-> ctx],
          err |-> NoErr]

NewRequestWithContext(ctx, method, url, b) == RequestTo(ctx, method, ParseURL(url), b)

\* a slip: the Authorization header set whether or not there is a token
SetAuthorization_Always(c, h) ==
    HeaderSet(h, "Authorization", "Bearer " \o c.APIToken)

\* the Authorization header newRequest sets when the client has a token
SetAuthorization(c, h) ==
    IF c.APIToken # "" THEN HeaderSet(h, "Authorization", "Bearer " \o c.APIToken) ELSE h

\* the headers newRequest sets on a request it built
SetHeaders(c, req) ==
    [req EXCEPT !.Header =
        SetAuthorization(c, HeaderSet(HeaderSet(@, "Accept", "application/json"),
                                      "Content-Type", "application/json"))]

\* the end of newRequest, for the request http.NewRequestWithContext made
WithHeaders(c, n, ran) ==
    IF n.err # NoErr THEN [req |-> NoReq, err |-> n.err, ran |-> ran]
    ELSE [req |-> SetHeaders(c, n.req), err |-> NoErr, ran |-> ran]

\* newRequest after its loop over the steps
AfterSteps(c, ctx, r) ==
    IF r.o.err # NoErr THEN [req |-> NoReq, err |-> r.o.err, ran |-> r.ran]
    ELSE WithHeaders(c, NewRequestWithContext(ctx, r.o.Method, r.o.Path, r.o.Body), r.ran)

\* the draft newRequest starts from
NewOptions(c) ==
    [Method |-> "GET", BaseURL |-> c.BaseURL, Path |-> c.BaseURL, Body |-> NoBody,
     err |-> NoErr]

\* (*Client).newRequest(ctx, opts...): (req, err), and how many steps ran
newRequest(c, ctx, opts) == AfterSteps(c, ctx, RunSteps(NewOptions(c), opts, 0))

----------------------------------------------------------------------------
(* The response body as an io.Reader, and encoding/json's Decoder, as far  *)
(* as do uses them.  A body is a run of tokens that the stream hands out   *)
(* chunk tokens per Read and then ends, with io.EOF or with a read error;  *)
(* the end comes with the last tokens (together) or in a Read of its own,  *)
(* as an io.Reader may do either.                                          *)
(* The tokens: "{" and "}", "id" for the member "id":"abc", "num" for a    *)
(* member whose value has the wrong type ("status":5), "x" for a character *)
(* no JSON text may hold there.                                            *)

Toks == {"{", "}", "id", "num", "x"}

EOF == [kind |-> "EOF"]
ReadErr == [kind |-> "read"]

Min(a, b) == IF a < b THEN a ELSE b

\* the error that ends the stream
EndOf(stream) == IF stream.end = "EOF" THEN EOF ELSE ReadErr

\* Body.Read at position pos: the tokens handed out and the error
Read(stream, pos) ==
    IF pos < Len(stream.data)
    THEN [p |-> SubSeq(stream.data, pos + 1, Min(pos + stream.chunk, Len(stream.data))),
          err |-> IF stream.together /\ pos + stream.chunk >= Len(stream.data)
                  THEN EndOf(stream) ELSE NoErr]
    ELSE [p |-> <<>>, err |-> EndOf(stream)]

RECURSIVE ReadAllFrom(_, _, _)
RECURSIVE ReadAllStep(_, _, _, _)
\* the loop of io.ReadAll: it reads until a Read returns an error and returns
\* what it has read so far, with that error unless it is io.EOF
ReadAllFrom(stream, pos, b) == ReadAllStep(stream, pos, b, Read(stream, pos))

ReadAllStep(stream, pos, b, r) ==
    IF r.err # NoErr
    THEN [data |-> b \o r.p, err |-> IF r.err = EOF THEN NoErr ELSE r.err,
          pos |-> pos + Len(r.p), sawEnd |-> TRUE]
    ELSE ReadAllFrom(stream, pos + Len(r.p), b \o r.p)

\* io.ReadAll(resp.Body)
ReadAll(stream) == ReadAllFrom(stream, 0, <<>>)

SyntaxError(offset) == [kind |-> "decode", cause |-> "syntax", offset |-> offset]
TypeError == [kind |-> "decode", cause |-> "type", offset |-> 0]
UnexpectedEOF == [kind |-> "decode", cause |-> "unexpected EOF", offset |-> 0]

RECURSIVE ReadValue(_, _, _, _, _, _)
RECURSIVE Refill(_, _, _, _, _, _)
\* (*Decoder).readValue: scan the buffer for one whole value and refill it
\* from the stream, one Read at a time, while the value is not complete.
\* It stops at the token that ends the value, at a token that is a syntax
\* error, or when the buffer is scanned and the last Read returned an error.
ReadValue(stream, pos, buf, scanp, inObject, lastErr) ==
    IF scanp < Len(buf)
    THEN LET tok == buf[scanp + 1] IN
         IF ~inObject
         THEN IF tok = "{" THEN ReadValue(stream, pos, buf, scanp + 1, TRUE, lastErr)
              ELSE [err |-> SyntaxError(scanp + 1), value |-> <<>>, pos |-> pos,
                    sawEnd |-> lastErr # NoErr]
         ELSE IF tok \in {"id", "num"}
              THEN ReadValue(stream, pos, buf, scanp + 1, TRUE, lastErr)
              ELSE IF tok = "}"
                   THEN [err |-> NoErr, value |-> SubSeq(buf, 1, scanp + 1), pos |-> pos,
                         sawEnd |-> lastErr # NoErr]
                   ELSE [err |-> SyntaxError(scanp + 1), value |-> <<>>, pos |-> pos,
                         sawEnd |-> lastErr # NoErr]
    ELSE IF lastErr # NoErr
         THEN [err |-> IF lastErr = EOF /\ buf # <<>> THEN UnexpectedEOF ELSE lastErr,
               value |-> <<>>, pos |-> pos, sawEnd |-> TRUE]
         ELSE Refill(stream, pos, buf, scanp, inObject, Read(stream, pos))

\* (*Decoder).refill: one Read, appended to the buffer
Refill(stream, pos, buf, scanp, inObject, r) ==
    ReadValue(stream, pos + Len(r.p), buf \o r.p, scanp, inObject, r.err)

RECURSIVE UnmarshalMembers(_, _, _)
\* the decoding of a scanned object into a Status: a member of the right type
\* is stored, the first member of the wrong type is remembered as the error
\* and the decoding goes on
UnmarshalMembers(value, v, err) ==
    IF value = <<>> THEN [v |-> v, err |-> err]
    ELSE IF Head(value) = "id"
         THEN UnmarshalMembers(Tail(value), [v EXCEPT !.ID = "abc"], err)
         ELSE IF Head(value) = "num"
              THEN UnmarshalMembers(Tail(value), v,
                                    IF err = NoErr THEN TypeError ELSE err)
              ELSE UnmarshalMembers(Tail(value), v, err)

\* json.NewDecoder(resp.Body).Decode(v): v afterwards, the error, and how far
\* the body was read
Decoded(um, rv) ==
    [v |-> [um.v EXCEPT !.decoded = TRUE], err |-> um.err, pos |-> rv.pos,
     sawEnd |-> rv.sawEnd]

DecodeValue(rv, v) ==
    IF rv.err # NoErr
    THEN [v |-> [v EXCEPT !.decoded = TRUE], err |-> rv.err, pos |-> rv.pos,
          sawEnd |-> rv.sawEnd]
    ELSE Decoded(UnmarshalMembers(rv.value, v, NoErr), rv)

Decode(stream, v) == DecodeValue(ReadValue(stream, 0, <<>>, 0, FALSE, NoErr), v)

----------------------------------------------------------------------------
(* The typed dispatcher.                                                   *)

\* the status code from which do reports a ClientError
ErrorStatus == 400

\* new(Status); decoded records whether Decode was called on it
NewStatus == [ID |-> "", decoded |-> FALSE]

NoStream == [data |-> <<>>, chunk |-> 1, end |-> "EOF", together |-> FALSE]
NoResp == [got |-> FALSE, err |-> NoErr, StatusCode |-> 0, Body |-> NoStream]
NoBuild == [req |-> NoReq, err |-> NoErr, ran |-> 0]
NoRet == [returned |-> FALSE, isNil |-> TRUE, val |-> NewStatus, err |-> NoErr]
FreshBody == [pos |-> 0, sawEnd |-> FALSE, closed |-> FALSE]
NoCall == [op |-> "none", ctx |-> "nil", nilPrompt |-> FALSE, workflow |-> NilRaw,
           opts |-> <<>>, id |-> <<>>, steps |-> <<>>]

ClientError(code, details) == [kind |-> "ClientError", Code |-> code, Details |-> details]

\* (*ClientError).Error
ErrorText(e) == e.Details

\* client(c): the HTTP client do sends the request through
client(c) == IF c.Client # "nil" THEN c.Client ELSE "http.DefaultClient"

Return(isNil, val, err) == [returned |-> TRUE, isNil |-> isNil, val |-> val, err |-> err]

\* do, from the return of the transport's Do on: what it returns (ret), the
\* destination afterwards (v) and the body's reader afterwards (body).  The
\* deferred Close runs on every path that got a response.
\* a slip: the error of io.ReadAll returned instead of dropped
ReturnClientError_ReadErr(code, ra, v) ==
    [ret |-> IF ra.err # NoErr THEN Return(TRUE, NewStatus, ra.err)
             ELSE Return(TRUE, NewStatus, ClientError(code, ra.data)),
     v |-> v,
     body |-> [pos |-> ra.pos, sawEnd |-> ra.sawEnd, closed |-> TRUE]]

\* the branch of do for a status code >= 400, ra being what io.ReadAll
\* returned: its error is dropped
ReturnClientError(code, ra, v) ==
    [ret |-> Return(TRUE, NewStatus, ClientError(code, ra.data)), v |-> v,
     body |-> [pos |-> ra.pos, sawEnd |-> ra.sawEnd, closed |-> TRUE]]

\* a slip: v returned along with the decode error
ReturnDecoded_Partial(d) ==
    [ret |-> Return(FALSE, d.v, d.err), v |-> d.v,
     body |-> [pos |-> d.pos, sawEnd |-> d.sawEnd, closed |-> TRUE]]

\* a slip: the body closed at the end of do, not by a deferred call
ReturnDecoded_NoDefer(d) ==
    [ret |-> IF d.err # NoErr THEN Return(TRUE, NewStatus, d.err)
             ELSE Return(FALSE, d.v, NoErr),
     v |-> d.v,
     body |-> [pos |-> d.pos, sawEnd |-> d.sawEnd, closed |-> d.err = NoErr]]

\* the branch of do for a status code < 400, d being what Decode returned
ReturnDecoded(d) ==
    [ret |-> IF d.err # NoErr THEN Return(TRUE, NewStatus, d.err)
             ELSE Return(FALSE, d.v, NoErr),
     v |-> d.v,
     body |-> [pos |-> d.pos, sawEnd |-> d.sawEnd, closed |-> TRUE]]

\* a slip: > for >=
doReturn_Above(r, v) ==
    IF r.err # NoErr
    THEN [ret |-> Return(TRUE, NewStatus, r.err), v |-> v, body |-> FreshBody]
    ELSE IF r.StatusCode > ErrorStatus
         THEN ReturnClientError(r.StatusCode, ReadAll(r.Body), v)
         ELSE ReturnDecoded(Decode(r.Body, v))

doReturn(r, v) ==
    IF r.err # NoErr
    THEN [ret |-> Return(TRUE, NewStatus, r.err), v |-> v, body |-> FreshBody]
    ELSE IF r.StatusCode >= ErrorStatus
         THEN ReturnClientError(r.StatusCode, ReadAll(r.Body), v)
         ELSE ReturnDecoded(Decode(r.Body, v))

----------------------------------------------------------------------------
(* The operations, called by the callers Cs on one Client.  An operation   *)
(* builds its request and invokes the transport in one step; the transport *)
(* answers in a step of its own (RoundTrip); the rest of do is one step    *)
(* (Handle).                                                               *)

Callers == DOMAIN pc

Clients(bases, tokens, transports) ==
    [BaseURL : bases, APIToken : tokens, Client : transports]

Init(Cs, clients) ==
    /\ cfg \in clients
    /\ pc = [c \in Cs |-> "idle"]
    /\ call = [c \in Cs |-> NoCall]
    /\ build = [c \in Cs |-> NoBuild]
    /\ sent = [c \in Cs |-> <<>>]
    /\ resp = [c \in Cs |-> NoResp]
    /\ body = [c \in Cs |-> FreshBody]
    /\ dest = [c \in Cs |-> NewStatus]
    /\ ret = [c \in Cs |-> NoRet]

\* the body of StartWorkflow and of WorkflowStatus: newRequest, then do with
\* a new Status up to the invocation of the transport, or the return of
\* newRequest's error
Built(c, args, b) ==
    /\ pc[c] = "idle"
    /\ call' = [call EXCEPT ![c] = args]
    /\ build' = [build EXCEPT ![c] = b]
    /\ dest' = [dest EXCEPT ![c] = NewStatus]
    /\ IF b.err # NoErr
       THEN /\ pc' = [pc EXCEPT ![c] = "done"]
            /\ ret' = [ret EXCEPT ![c] = Return(TRUE, NewStatus, b.err)]
            /\ sent' = sent
       ELSE /\ pc' = [pc EXCEPT ![c] = "sent"]
            /\ sent' = [sent EXCEPT ![c] = Append(@, client(cfg))]
            /\ ret' = ret
    /\ UNCHANGED <<cfg, resp, body>>

Operation(c, args) == Built(c, args, newRequest(cfg, args.ctx, args.steps))

\* the prompt a caller hands to StartWorkflow
PromptOf(p) ==
    IF p.nilPrompt THEN NilPrompt ELSE NewStartWorkflowRequest(p.workflow, p.opts)

\* (*Client).StartWorkflow(ctx, prompt), prompt being nil or what
\* NewStartWorkflowRequest(workflow, opts...) returned
StartWorkflow(c, ctxs, prompts) ==
    /\ pc[c] = "idle"
    /\ \E ctx \in ctxs, p \in prompts :
        Operation(c, [op |-> "StartWorkflow", ctx |-> ctx, nilPrompt |-> p.nilPrompt,
                      workflow |-> p.workflow, opts |-> p.opts, id |-> <<>>,
                      steps |-> <<WithPath(<<<<"payload">>>>),
                                  WithBodyJSON(PromptOf(p))>>])

\* (*Client).WorkflowStatus(ctx, id)
WorkflowStatus(c, ctxs, ids) ==
    /\ pc[c] = "idle"
    /\ \E ctx \in ctxs, id \in ids :
        Operation(c, [op |-> "WorkflowStatus", ctx |-> ctx, nilPrompt |-> FALSE,
                      workflow |-> NilRaw, opts |-> <<>>, id |-> id,
                      steps |-> <<WithPath(<<<<"result">>, id>>)>>])

\* (*Client).newRequest(ctx, opts...) with any list of steps, called on its own
NewRequest(c, ctxs, stepLists) ==
    /\ pc[c] = "idle"
    /\ \E ctx \in ctxs, steps \in stepLists :
        /\ pc' = [pc EXCEPT ![c] = "built"]
        /\ call' = [call EXCEPT ![c] = [NoCall EXCEPT !.op = "newRequest", !.ctx = ctx,
                                                      !.steps = steps]]
        /\ build' = [build EXCEPT ![c] = newRequest(cfg, ctx, steps)]
        /\ UNCHANGED <<cfg, sent, resp, body, dest, ret>>

\* the transport's Do returns: an error, or a response
RoundTrip(c, results) ==
    /\ pc[c] = "sent"
    /\ \E r \in results :
        /\ pc' = [pc EXCEPT ![c] = "recv"]
        /\ resp' = [resp EXCEPT ![c] = r]
        /\ UNCHANGED <<cfg, call, build, sent, body, dest, ret>>

\* do, from the return of the transport's Do to its own return
\* a slip: the request sent once more when do is about to return an error
Returned_Retry(c, d) ==
    /\ pc[c] = "recv"
    /\ IF d.ret.err # NoErr /\ Len(sent[c]) < 2
       THEN /\ pc' = [pc EXCEPT ![c] = "sent"]
            /\ sent' = [sent EXCEPT ![c] = Append(@, client(cfg))]
            /\ UNCHANGED <<ret, dest, body>>
       ELSE /\ pc' = [pc EXCEPT ![c] = "done"]
            /\ ret' = [ret EXCEPT ![c] = d.ret]
            /\ dest' = [dest EXCEPT ![c] = d.v]
            /\ body' = [body EXCEPT ![c] = d.body]
            /\ sent' = sent
    /\ UNCHANGED <<cfg, call, build, resp>>

\* the return of do: d is what it returns and leaves behind
Returned(c, d) ==
    /\ pc[c] = "recv"
    /\ pc' = [pc EXCEPT ![c] = "done"]
    /\ ret' = [ret EXCEPT ![c] = d.ret]
    /\ dest' = [dest EXCEPT ![c] = d.v]
    /\ body' = [body EXCEPT ![c] = d.body]
    /\ UNCHANGED <<cfg, call, build, sent, resp>>

\* a slip: the response kept in a field that the callers share
Handle_Shared(c) ==
    Returned(c, doReturn(resp[CHOOSE x \in Callers :
                                  /\ resp[x].got
                                  /\ \A y \in Callers : resp[y].got => x <= y],
                         dest[c]))

Handle(c) == Returned(c, doReturn(resp[c], dest[c]))

----------------------------------------------------------------------------
(* The inputs.                                                             *)

Ctxs == {"nil", "ctx"}

GoodBase == <<Origin, "/", "a">>
BadBase == <<Origin, "/", Ctl>>
BaseURLs == {<<Origin>>, GoodBase, <<Origin, "/", "a", "/">>,
             <<Origin, "/", "a", "/", "/", "b">>, BadBase}

ValidWorkflow == [isNil |-> FALSE, text |-> "{\"3\":{}}", valid |-> TRUE]
InvalidWorkflow == [isNil |-> FALSE, text |-> "not json", valid |-> FALSE]
TruncatedWorkflow == [isNil |-> FALSE, text |-> "{", valid |-> FALSE]

Prompt(workflow, opts) == [nilPrompt |-> FALSE, workflow |-> workflow, opts |-> opts]
APrompt == [nilPrompt |-> TRUE, workflow |-> NilRaw, opts |-> <<>>]

\* the request identifiers: what StartWithRequestID may be given
RequestIDs == SeqsUpTo({"a", "<", BadByte}, MaxIdLen)

\* the option lists of NewStartWorkflowRequest: none, one StartWithRequestID,
\* or two of them
StartOptionLists ==
    {<<>>} \cup {<<x>> : x \in RequestIDs}
           \cup {<<x, y>> : x \in RequestIDs, y \in {<<>>, <<"b">>}}

\* the workflow identifiers: what WorkflowStatus may be given
WorkflowIDs == SeqsUpTo({"a", "/", "."}, MaxIdLen)

\* the steps newRequest may be given
Steps ==
    {WithPath(<<<<"a">>>>), WithPath(<<<<"a">>, <<"b">>>>),
     WithBodyJSON(NilPrompt),
     WithBodyJSON(NewStartWorkflowRequest(ValidWorkflow, <<>>)),
     WithBodyJSON(NewStartWorkflowRequest(InvalidWorkflow, <<>>)),
     WithBodyJSON(NewStartWorkflowRequest(TruncatedWorkflow, <<>>))}

TransportError == [got |-> TRUE, err |-> [kind |-> "transport"], StatusCode |-> 0,
                   Body |-> NoStream]

Response(code, stream) == [got |-> TRUE, err |-> NoErr, StatusCode |-> code, Body |-> stream]

Stream(data, chunk, end) ==
    [data |-> data, chunk |-> chunk, end |-> end, together |-> FALSE]

\* every body of at most MaxBody tokens, handed out one token per Read or all
\* at once, and ending with io.EOF or with a read error
Streams ==
    [data : SeqsUpTo(Toks, MaxBody), chunk : {1, MaxBody + 1}, end : {"EOF", "err"},
     together : BOOLEAN]

StatusCodes == {200, 399, ErrorStatus, 404}

Responses == {Response(code, b) : code \in StatusCodes, b \in Streams}

\* a few results of the transport
FewResults ==
    {TransportError,
     Response(200, Stream(<<"{", "id", "}">>, 1, "EOF")),
     Response(200, Stream(<<"{", "x">>, 1, "EOF")),
     Response(404, Stream(<<"x">>, 1, "EOF"))}

----------------------------------------------------------------------------
(* The dispatcher: one caller, every response.                             *)

InitDispatch ==
    Init({1}, Clients({GoodBase, BadBase}, {"tok"}, {"nil", "custom"}))

NextDispatch ==
    \/ \E c \in Callers :
           StartWorkflow(c, Ctxs, {APrompt, Prompt(ValidWorkflow, <<>>),
                                   Prompt(InvalidWorkflow, <<>>)})
    \/ \E c \in Callers : WorkflowStatus(c, Ctxs, {<<"a">>})
    \/ \E c \in Callers : RoundTrip(c, Responses \cup {TransportError})
    \/ \E c \in Callers : Handle(c)

Spec == InitDispatch /\ [][NextDispatch]_vars

(* The builder: one caller, every base, token, identifier and step list.   *)

InitBuild ==
    Init({1}, Clients(BaseURLs, {"", "tok"}, {"nil", "custom"}))

NextBuild ==
    \/ \E c \in Callers :
           StartWorkflow(c, Ctxs, {APrompt}
               \cup {Prompt(w, o) : w \in {NilRaw, ValidWorkflow, InvalidWorkflow},
                                    o \in StartOptionLists})
    \/ \E c \in Callers : WorkflowStatus(c, Ctxs, WorkflowIDs)
    \/ \E c \in Callers : NewRequest(c, Ctxs, SeqsUpTo(Steps, MaxSteps))
    \/ \E c \in Callers : RoundTrip(c, FewResults)
    \/ \E c \in Callers : Handle(c)

SpecBuild == InitBuild /\ [][NextBuild]_vars

(* Concurrent callers of one Client.                                       *)

InitConc ==
    Init(1..NumCallers, Clients({GoodBase}, {"", "tok"}, {"nil"}))

NextConc ==
    \/ \E c \in Callers :
           StartWorkflow(c, {"ctx"}, {Prompt(ValidWorkflow, <<>>),
                                      Prompt(InvalidWorkflow, <<>>)})
    \/ \E c \in Callers : WorkflowStatus(c, {"ctx"}, {<<"a">>})
    \/ \E c \in Callers : RoundTrip(c, FewResults)
    \/ \E c \in Callers : Handle(c)

SpecConc == InitConc /\ [][NextConc]_vars

----------------------------------------------------------------------------
(* What the claims are stated with.                                        *)

\* caller c ran StartWorkflow or WorkflowStatus
IsOperation(c) == call[c].op \in {"StartWorkflow", "WorkflowStatus"}

\* newRequest returned a request to caller c
HasRequest(c) == call[c].op # "none" /\ build[c].err = NoErr

\* do has returned to caller c after the transport handed it a response
GotResponse(c) == pc[c] = "done" /\ resp[c].got /\ resp[c].err = NoErr

\* the error a step leaves in the draft newRequest starts from
StepErr(f) == ApplyStep(f, NewOptions(cfg)).err

Failing(steps) == {i \in 1..Len(steps) : StepErr(steps[i]) # NoErr}

First(S) == CHOOSE i \in S : \A j \in S : i <= j

Last(S) == CHOOSE i \in S : \A j \in S : j <= i

Indexes(steps, kind) == {i \in 1..Len(steps) : steps[i].step = kind}

RECURSIVE TrimSlashes(_)
TrimSlashes(s) ==
    IF s # <<>> /\ s[Len(s)] = "/" THEN TrimSlashes(SubSeq(s, 1, Len(s) - 1)) ELSE s

NoDoubleSlash(s) == \A i \in 1..(Len(s) - 1) : ~(s[i] = "/" /\ s[i + 1] = "/")

\* a base endpoint whose path needs no cleaning
Canonical(base) == NoDoubleSlash(base) /\ "." \notin Range(base)

\* an identifier that is one path segment, and not "." or ".."
PlainSegment(id) == id # <<>> /\ "/" \notin Range(id) /\ id \notin {<<".">>, <<".", ".">>}

HasMember(members, k) == \E i \in 1..Len(members) : members[i].k = k

ValueOf(members, k) == members[CHOOSE i \in 1..Len(members) : members[i].k = k].v

\* a string with every byte that is not valid UTF-8 replaced by U+FFFD
ToValidUTF8(x) == [i \in 1..Len(x) |-> IF x[i] = BadByte THEN Replacement ELSE x[i]]

\* the request identifier NewStartWorkflowRequest was given last
LastRequestID(opts) == opts[Len(opts)]

\* StartWorkflow was given what NewStartWorkflowRequest returned, and built
\* its request
BuiltFromNew(c) ==
    call[c].op = "StartWorkflow" /\ ~call[c].nilPrompt /\ build[c].err = NoErr

\* handler, gcp and modifiers as NewStartWorkflowRequest sets them
HasDefaults(members) ==
    /\ HasMember(members, "handler") /\ ValueOf(members, "handler") = <<"RawWorkflow">>
    /\ HasMember(members, "gcp") /\ ValueOf(members, "gcp") = <<"{}">>
    /\ HasMember(members, "modifiers") /\ ValueOf(members, "modifiers") = <<"{}">>

\* the steps an operation hands to newRequest
StepsOf(args) ==
    IF args.op = "StartWorkflow"
    THEN <<WithPath(<<<<"payload">>>>), WithBodyJSON(PromptOf(args))>>
    ELSE <<WithPath(<<<<"result">>, args.id>>)>>

\* what an operation returns, from its arguments, the client and the
\* transport's answer alone
Outcome(c0, args, r) ==
    IF newRequest(c0, args.ctx, StepsOf(args)).err # NoErr
    THEN Return(TRUE, NewStatus, newRequest(c0, args.ctx, StepsOf(args)).err)
    ELSE doReturn(r, NewStatus).ret

DecodeErrorKinds == {"decode", "EOF", "read"}

----------------------------------------------------------------------------
(* The claims.                                                             *)

\* C1: a response with a status code >= 400 makes do return nil and a
\* ClientError whose Code is the status code, whose Details are the bytes of
\* the body and whose Error() is those bytes; the body is not decoded into
\* the destination.
C1_ClientError ==
    \A c \in Callers :
        (GotResponse(c) /\ resp[c].StatusCode >= ErrorStatus) =>
            /\ ret[c].isNil
            /\ ret[c].err.kind = "ClientError"
            /\ ret[c].err.Code = resp[c].StatusCode
            /\ ret[c].err.Details = resp[c].Body.data
            /\ ErrorText(ret[c].err) = resp[c].Body.data
            /\ ~dest[c].decoded
            /\ dest[c].ID = ""

\* a 404 whose body is a JSON object came back as a ClientError
C1_Witness ==
    \E c \in Callers :
        /\ GotResponse(c)
        /\ resp[c].StatusCode = 404
        /\ resp[c].Body.data = <<"{", "id", "}">>
        /\ ret[c].err = ClientError(404, <<"{", "id", "}">>)

\* C2: a response with a status code < 400 (399 as well as 200) is decoded
\* into the destination: the decoded value and a nil error when decoding
\* succeeds, nil and the decode error, never a ClientError, when it fails;
\* a decode error is returned only for a status code < 400.
C2_Decode ==
    \A c \in Callers :
        /\ (GotResponse(c) /\ resp[c].StatusCode < ErrorStatus) =>
              /\ dest[c].decoded
              /\ IF Decode(resp[c].Body, NewStatus).err = NoErr
                 THEN /\ ~ret[c].isNil
                      /\ ret[c].err = NoErr
                      /\ ret[c].val = Decode(resp[c].Body, NewStatus).v
                 ELSE /\ ret[c].isNil
                      /\ ret[c].val = NewStatus
                      /\ ret[c].err = Decode(resp[c].Body, NewStatus).err
                      /\ ret[c].err.kind # "ClientError"
              /\ (resp[c].Body.data = <<"{", "id", "}">>) =>
                     (~ret[c].isNil /\ ret[c].val.ID = "abc" /\ ret[c].err = NoErr)
              /\ ("x" \in Range(resp[c].Body.data) /\ "}" \notin Range(resp[c].Body.data)) =>
                     (ret[c].isNil /\ ret[c].err # NoErr)
        /\ (pc[c] = "done" /\ IsOperation(c) /\ ret[c].err.kind \in DecodeErrorKinds) =>
              (resp[c].got /\ resp[c].err = NoErr /\ resp[c].StatusCode < ErrorStatus)

\* a 399 whose body filled the destination in part came back as nil and a
\* decode error
C2_Witness ==
    \E c \in Callers :
        /\ GotResponse(c)
        /\ resp[c].StatusCode = 399
        /\ dest[c].ID = "abc"
        /\ ret[c].isNil
        /\ ret[c].err = TypeError

\* C3: a request newRequest returns carries Accept and Content-Type
\* application/json, and Authorization: Bearer <token> exactly when the
\* client's APIToken is not empty.
C3_Headers ==
    \A c \in Callers :
        HasRequest(c) =>
            /\ ~build[c].req.isNil
            /\ {"Accept", "Content-Type"} \subseteq DOMAIN build[c].req.Header
            /\ build[c].req.Header["Accept"] = "application/json"
            /\ build[c].req.Header["Content-Type"] = "application/json"
            /\ ("Authorization" \in DOMAIN build[c].req.Header) <=> (cfg.APIToken # "")
            /\ (cfg.APIToken = "tok") => (build[c].req.Header["Authorization"] = "Bearer tok")

\* a POST request built by a client with no token has no Authorization
C3_Witness ==
    \E c \in Callers :
        /\ HasRequest(c)
        /\ cfg.APIToken = ""
        /\ build[c].req.Method = "POST"
        /\ DOMAIN build[c].req.Header = {"Accept", "Content-Type"}

\* C4: newRequest applies its steps in the order given and stops at the first
\* that fails: it returns that step's error and no request, and no later
\* step runs.  When no step fails every step ran, and the last withPath and
\* the last withBodyJSON decide the target and the body.
C4_FirstErrorWins ==
    \A c \in Callers :
        (call[c].op # "none") =>
            IF Failing(call[c].steps) # {}
            THEN /\ build[c].req.isNil
                 /\ build[c].err = StepErr(call[c].steps[First(Failing(call[c].steps))])
                 /\ build[c].ran = First(Failing(call[c].steps))
            ELSE /\ build[c].ran = Len(call[c].steps)
                 /\ (build[c].err = NoErr) =>
                       /\ (Indexes(call[c].steps, "withPath") # {}) =>
                             build[c].req.URL =
                                 JoinPath(cfg.BaseURL,
                                          call[c].steps[Last(Indexes(call[c].steps, "withPath"))].path).result
                       /\ (Indexes(call[c].steps, "withBodyJSON") # {}) =>
                             /\ build[c].req.Method = "POST"
                             /\ build[c].req.Body.input =
                                    EncodeJSON(call[c].steps[Last(Indexes(call[c].steps, "withBodyJSON"))].payload).doc.input

\* two steps that both fail, with different errors: the first one's is
\* returned after one step
C4_Witness ==
    \E c \in Callers :
        /\ call[c].op = "newRequest"
        /\ Len(call[c].steps) = 2
        /\ Failing(call[c].steps) = {1, 2}
        /\ StepErr(call[c].steps[1]) # StepErr(call[c].steps[2])
        /\ build[c].err = StepErr(call[c].steps[1])
        /\ build[c].ran = 1

\* C5: an operation invokes the transport at most once: once when newRequest
\* returned a request, never when it returned an error; whatever do returns,
\* the transport is not invoked again.
C5_Once ==
    \A c \in Callers :
        /\ Len(sent[c]) <= 1
        /\ (IsOperation(c) /\ pc[c] \in {"sent", "recv", "done"}) =>
              (Len(sent[c]) = IF build[c].err = NoErr THEN 1 ELSE 0)
        /\ (IsOperation(c) /\ build[c].err # NoErr) =>
              (pc[c] = "done" /\ ~resp[c].got /\ ret[c].err = build[c].err)

\* a call that ended with a decode error invoked the transport once
C5_Witness ==
    \E c \in Callers :
        /\ GotResponse(c)
        /\ ret[c].err.kind = "decode"
        /\ Len(sent[c]) = 1

\* C6 as claimed: when do returns after a response, the body has been read
\* to its end and closed.
C6_Original ==
    \A c \in Callers :
        GotResponse(c) =>
            (body[c].closed /\ body[c].pos = Len(resp[c].Body.data))

\* C6, amended: when do returns after a response, the body has been closed;
\* for a status code >= 400 it has also been read until io.EOF or a read
\* error; for a status code < 400 it has been read as far as the decoder
\* needed, which may leave bytes unread.
C6_Closed ==
    \A c \in Callers :
        /\ GotResponse(c) =>
              /\ body[c].closed
              /\ body[c].pos <= Len(resp[c].Body.data)
              /\ (resp[c].StatusCode >= ErrorStatus) =>
                     (body[c].sawEnd /\ body[c].pos = Len(resp[c].Body.data))
        /\ (pc[c] # "done") => ~body[c].closed

\* a decode failure that left bytes of the body unread, the body closed
C6_Witness ==
    \E c \in Callers :
        /\ GotResponse(c)
        /\ resp[c].StatusCode < ErrorStatus
        /\ ret[c].err.kind = "decode"
        /\ body[c].closed
        /\ body[c].pos < Len(resp[c].Body.data)

\* C7: StartWorkflow builds POST <base>/payload with the JSON of the prompt
\* as body, WorkflowStatus(id) builds GET <base>/result/<id> with no body,
\* newRequest with no steps builds GET <base> with no body; no target that
\* withPath joined has a double slash.
C7_Targets ==
    \A c \in Callers :
        HasRequest(c) =>
            /\ (call[c].op = "StartWorkflow") =>
                  /\ build[c].req.Method = "POST"
                  /\ Canonical(cfg.BaseURL) =>
                         (build[c].req.URL = TrimSlashes(cfg.BaseURL) \o <<"/", "payload">>)
                  /\ HasSuffix(build[c].req.URL, <<"/", "payload">>)
                  /\ NoDoubleSlash(build[c].req.URL)
                  /\ ~build[c].req.Body.none
                  /\ build[c].req.Body.null = call[c].nilPrompt
                  /\ (~call[c].nilPrompt) =>
                        /\ ValueOf(build[c].req.Body.input, "handler") = <<"RawWorkflow">>
                        /\ ValueOf(build[c].req.Body.input, "workflow_json") =
                               IF call[c].workflow.isNil THEN <<"null">>
                               ELSE <<call[c].workflow.text>>
                        /\ HasMember(build[c].req.Body.input, "request_id") =>
                               (UnquoteJSON(ValueOf(build[c].req.Body.input, "request_id"))
                                    = ToValidUTF8(PromptOf(call[c]).Input.RequestID))
            /\ (call[c].op = "WorkflowStatus") =>
                  /\ build[c].req.Method = "GET"
                  /\ build[c].req.Body.none
                  /\ NoDoubleSlash(build[c].req.URL)
                  /\ (Canonical(cfg.BaseURL) /\ PlainSegment(call[c].id)) =>
                         (build[c].req.URL =
                              TrimSlashes(cfg.BaseURL) \o <<"/", "result", "/">> \o call[c].id)
            /\ (call[c].op = "newRequest" /\ call[c].steps = <<>>) =>
                  /\ build[c].req.Method = "GET"
                  /\ build[c].req.Body.none
                  /\ build[c].req.URL = cfg.BaseURL

\* StartWorkflow on a base that ends with a slash
C7_Witness ==
    \E c \in Callers :
        /\ HasRequest(c)
        /\ call[c].op = "StartWorkflow"
        /\ cfg.BaseURL = <<Origin, "/", "a", "/">>
        /\ build[c].req.URL = <<Origin, "/", "a", "/", "payload">>
        /\ build[c].req.Method = "POST"

\* C8 as claimed: without StartWithRequestID the body has no request_id; with
\* StartWithRequestID(x), for any string x, it has request_id equal to x; in
\* both cases handler is RawWorkflow and gcp and modifiers are {}.
C8_Original ==
    \A c \in Callers :
        BuiltFromNew(c) =>
            /\ HasDefaults(build[c].req.Body.input)
            /\ IF call[c].opts = <<>>
               THEN ~HasMember(build[c].req.Body.input, "request_id")
               ELSE /\ HasMember(build[c].req.Body.input, "request_id")
                    /\ UnquoteJSON(ValueOf(build[c].req.Body.input, "request_id"))
                           = LastRequestID(call[c].opts)

\* C8, amended: without StartWithRequestID, and with StartWithRequestID(""),
\* the body has no request_id; with StartWithRequestID(x), x not empty, it has
\* request_id equal to x, unchanged when x is valid UTF-8 and with U+FFFD for
\* each byte that is not; in every case handler is RawWorkflow and gcp and
\* modifiers are {}.
C8_RequestID ==
    \A c \in Callers :
        BuiltFromNew(c) =>
            /\ HasDefaults(build[c].req.Body.input)
            /\ IF call[c].opts = <<>> \/ LastRequestID(call[c].opts) = <<>>
               THEN ~HasMember(build[c].req.Body.input, "request_id")
               ELSE /\ HasMember(build[c].req.Body.input, "request_id")
                    /\ UnquoteJSON(ValueOf(build[c].req.Body.input, "request_id"))
                           = ToValidUTF8(LastRequestID(call[c].opts))
                    /\ (BadByte \notin Range(LastRequestID(call[c].opts))) =>
                           (UnquoteJSON(ValueOf(build[c].req.Body.input, "request_id"))
                                = LastRequestID(call[c].opts))

\* a request identifier that the encoder escapes is in the body unchanged
C8_Witness ==
    \E c \in Callers :
        /\ BuiltFromNew(c)
        /\ call[c].opts = << <<"a", "<">> >>
        /\ ValueOf(build[c].req.Body.input, "request_id") = <<"a", "\\u003c">>
        /\ UnquoteJSON(ValueOf(build[c].req.Body.input, "request_id")) = <<"a", "<">>

\* C9 as claimed: when reading the body of a response with a status code
\* >= 400 fails, the ClientError has the status code and empty Details.
C9_Original ==
    \A c \in Callers :
        (GotResponse(c) /\ resp[c].StatusCode >= ErrorStatus /\ resp[c].Body.end = "err") =>
            /\ ret[c].err.kind = "ClientError"
            /\ ret[c].err.Code = resp[c].StatusCode
            /\ ret[c].err.Details = <<>>

\* C9, amended: when reading the body of a response with a status code >= 400
\* fails, the read error is not returned: do returns nil and a ClientError
\* with the status code, whose Details are the bytes read before the
\* failure, empty only when it failed before any byte.
C9_ReadFailure ==
    \A c \in Callers :
        (GotResponse(c) /\ resp[c].StatusCode >= ErrorStatus /\ resp[c].Body.end = "err") =>
            /\ ret[c].isNil
            /\ ret[c].err # ReadErr
            /\ ret[c].err.kind = "ClientError"
            /\ ret[c].err.Code = resp[c].StatusCode
            /\ ret[c].err.Details = SubSeq(resp[c].Body.data, 1, body[c].pos)
            /\ (ret[c].err.Details = <<>>) <=> (body[c].pos = 0)

\* a read that failed after two bytes: the two bytes are the Details
C9_Witness ==
    \E c \in Callers :
        /\ GotResponse(c)
        /\ resp[c].StatusCode >= ErrorStatus
        /\ resp[c].Body.end = "err"
        /\ body[c].pos = 2
        /\ Len(ret[c].err.Details) = 2

\* what a step leaves alone of a caller whose position it does not change
Untouched(c) ==
    (pc'[c] = pc[c]) =>
        /\ call'[c] = call[c]
        /\ build'[c] = build[c]
        /\ sent'[c] = sent[c]
        /\ resp'[c] = resp[c]
        /\ body'[c] = body[c]
        /\ dest'[c] = dest[c]
        /\ ret'[c] = ret[c]

\* what caller c has got is what its own arguments, the client and its own
\* response give
OwnOutcome(c) ==
    /\ (pc[c] = "done") => (ret[c] = Outcome(cfg, call[c], resp[c]))
    /\ (pc[c] # "idle") => (build[c] = newRequest(cfg, call[c].ctx, StepsOf(call[c])))
    /\ body[c].closed <=> (pc[c] = "done" /\ resp[c].got /\ resp[c].err = NoErr)

\* C10: however concurrent calls on one Client interleave, no step changes
\* the client, a step changes the request, the response body, the
\* destination and the result of one call only, and what a call returns is
\* decided by its arguments, the client and its own response.
C10_Isolation ==
    /\ [][cfg' = cfg]_vars
    /\ [][\A c \in Callers : Untouched(c)]_vars
    /\ [][Cardinality({c \in Callers : pc'[c] # pc[c]}) <= 1]_vars
    /\ [](\A c \in Callers : OwnOutcome(c))

\* one caller's WorkflowStatus has returned a value and closed its body while
\* another caller's StartWorkflow holds a 404 it has not read yet
C10_Witness ==
    \E c \in Callers, d \in Callers :
        /\ c # d
        /\ pc[c] = "done" /\ ret[c].err = NoErr /\ body[c].closed
        /\ call[c].op = "WorkflowStatus"
        /\ pc[d] = "recv" /\ resp[d].StatusCode = 404 /\ ~body[d].closed
        /\ call[d].op = "StartWorkflow"

====
